---- MODULE Spec2Model ----
(***************************************************************************)
(* A model of md2vim's vimdoc renderer (vimdoc.go): the renderer session   *)
(* (type vimDoc), the output buffer its handlers append to, the layout     *)
(* primitives, the heading registry with chapter numbering, the list       *)
(* stack, and the finalization pass (table of contents and fence cleanup). *)
(*                                                                         *)
(* Bytes are sequences of one-character strings.  The parser that drives   *)
(* the handlers is the environment: it chooses each call and its           *)
(* arguments.  A text func() bool callback is modelled by what it does     *)
(* to the buffer (the bytes its span handlers append) and what it returns. *)
(***************************************************************************)
EXTENDS Integers, Sequences, FiniteSets, TLC

VARIABLES
    v,      \* the renderer session, a vimDoc
    out,    \* the bytes.Buffer the parser hands to every handler
    pc,     \* where the conversion is: "new", "body", "done"
    calls,  \* number of body handler calls made so far
    last,   \* the handler call just made: its name and arguments, the buffer and
            \* the heading registry before it
    trav,   \* the buffer as traversal left it, before DocumentFooter rewrote it
    open    \* the parser's open lists, outermost first: kind and numbers written so far

vars == <<v, out, pc, calls, last, trav, open>>

----------------------------------------------------------------------------
(* Bytes *)

Lowers == <<"a", "b", "c", "d", "e", "f", "g", "h", "i", "j", "k", "l", "m",
            "n", "o", "p", "q", "r", "s", "t", "u", "v", "w", "x", "y", "z">>
Uppers == <<"A", "B", "C", "D", "E", "F", "G", "H", "I", "J", "K", "L", "M",
            "N", "O", "P", "Q", "R", "S", "T", "U", "V", "W", "X", "Y", "Z">>
Digits == <<"0", "1", "2", "3", "4", "5", "6", "7", "8", "9">>

Has(s, c) == \E i \in 1..Len(s) : s[i] = c
IndexOf(s, c) == CHOOSE i \in 1..Len(s) : s[i] = c

\* unicode.ToLower / ToUpper / ToTitle on one ASCII byte
toLower(c) == IF Has(Uppers, c) THEN Lowers[IndexOf(Uppers, c)] ELSE c
toUpper(c) == IF Has(Lowers, c) THEN Uppers[IndexOf(Lowers, c)] ELSE c

\* bytes.ToLower, bytes.ToUpper
ToLower(s) == [i \in 1..Len(s) |-> toLower(s[i])]
ToUpper(s) == [i \in 1..Len(s) |-> toUpper(s[i])]

\* bytes.isSeparator: letters, digits and underscore are not separators,
\* every other ASCII byte is
isSeparator(c) == ~(Has(Lowers, c) \/ Has(Uppers, c) \/ Has(Digits, c) \/ c = "_")

\* bytes.Title: the first letter of every word goes to title case; a word
\* starts at the beginning and after every separator
Title(s) ==
    [i \in 1..Len(s) |->
        IF isSeparator(IF i = 1 THEN " " ELSE s[i - 1]) THEN toUpper(s[i]) ELSE s[i]]

\* the concatenation of the byte strings ss[lo], ..., ss[hi]
RECURSIVE Flat(_, _, _)
Flat(ss, lo, hi) ==
    IF lo > hi THEN <<>>
    ELSE IF lo = hi THEN ss[lo]
    ELSE Flat(ss, lo, (lo + hi) \div 2) \o Flat(ss, ((lo + hi) \div 2) + 1, hi)

\* bytes.Replace(s, []byte{old}, new, -1) for a one-byte old
Replace(s, old, new) ==
    Flat([i \in 1..Len(s) |-> IF s[i] = old THEN new ELSE <<s[i]>>], 1, Len(s))

Max(a, b) == IF a >= b THEN a ELSE b

\* strings.Repeat for a one-byte string
Repeat(c, n) == [i \in 1..n |-> c]

\* strconv.Itoa for n >= 0
RECURSIVE Itoa(_)
Itoa(n) == IF n < 10 THEN <<Digits[n + 1]>> ELSE Itoa(n \div 10) \o <<Digits[(n % 10) + 1]>>

\* strings.LastIndex(s, c) for a one-byte c, as a 1-based position; 0 is Go's -1
LastIndex(s, c) ==
    IF Has(s, c) THEN CHOOSE i \in 1..Len(s) : s[i] = c /\ \A j \in (i + 1)..Len(s) : s[j] # c
    ELSE 0

\* strings.Split(s, "\n")
RECURSIVE SplitFrom(_, _, _)
SplitFrom(s, i, cur) ==
    IF i > Len(s) THEN <<cur>>
    ELSE IF s[i] = "\n" THEN <<cur>> \o SplitFrom(s, i + 1, <<>>)
    ELSE SplitFrom(s, i + 1, Append(cur, s[i]))
Split(s) == SplitFrom(s, 1, <<>>)

\* path.Base for a non-empty path that does not end in a slash
Base(p) == SubSeq(p, LastIndex(p, "/") + 1, Len(p))

----------------------------------------------------------------------------
(* Flags *)

flagNoToc == 1
flagNoRules == 2
flagPascal == 4

\* flags & bit != 0
HasFlag(flags, bit) == (flags \div bit) % 2 = 1

----------------------------------------------------------------------------
(* Construction *)

VimDocRenderer(filename, desc, cols, tabs, flags) ==
    LET base == Base(filename)
        index == LastIndex(base, ".")
        title == IF index > 0
                 THEN (IF ~HasFlag(flags, flagPascal)
                       THEN ToLower(SubSeq(base, 1, index - 1))
                       ELSE SubSeq(base, 1, index - 1))
                 ELSE base
    IN  [filename |-> base, title |-> title, desc |-> desc, cols |-> cols,
         tabs |-> tabs, flags |-> flags, tocPos |-> -1, lists |-> <<>>,
         headings |-> <<>>]

----------------------------------------------------------------------------
(* Help tags and chapter numbers *)

\* buildHelpTag without the bytes.ToLower of the default mode
buildHelpTagNoLower(vd, text) ==
    LET slug == IF ~HasFlag(vd.flags, flagPascal)
                THEN Replace(text, " ", <<"_">>)
                ELSE Replace(Title(text), " ", <<>>)
    IN  vd.title \o <<"-">> \o slug

buildHelpTag(vd, text) ==
    LET slug == IF ~HasFlag(vd.flags, flagPascal)
                THEN Replace(ToLower(text), " ", <<"_">>)
                ELSE Replace(Title(text), " ", <<>>)
    IN  vd.title \o <<"-">> \o slug

\* the backward walk of buildChapters from registry position i, giving the
\* per-level counters innermost first
RECURSIVE chaptersFrom(_, _, _, _)
chaptersFrom(hs, i, level, siblings) ==
    IF i < 1 THEN <<siblings>>
    ELSE IF hs[i].level = level THEN chaptersFrom(hs, i - 1, level, siblings + 1)
    ELSE IF hs[i].level < level THEN <<siblings>> \o chaptersFrom(hs, i - 1, hs[i].level, 1)
    ELSE chaptersFrom(hs, i - 1, level, siblings)

RECURSIVE joinChapters(_, _)
joinChapters(chapters, i) ==
    IF i < 1 THEN <<>> ELSE Itoa(chapters[i]) \o <<".">> \o joinChapters(chapters, i - 1)

\* buildChapters with the final loop running forward: the counters come out
\* innermost first
RECURSIVE joinForward(_, _)
joinForward(chapters, i) ==
    IF i > Len(chapters) THEN <<>>
    ELSE Itoa(chapters[i]) \o <<".">> \o joinForward(chapters, i + 1)

buildChaptersForward(vd, index) ==
    joinForward(chaptersFrom(vd.headings, index - 1, vd.headings[index].level, 1), 1)

\* buildChapters for the heading at registry position index (the code finds
\* the position by pointer identity)
buildChapters(vd, index) ==
    LET chapters == chaptersFrom(vd.headings, index - 1, vd.headings[index].level, 1)
    IN  joinChapters(chapters, Len(chapters))

----------------------------------------------------------------------------
(* Layout primitives: each gives the bytes it appends *)

\* writeSplitText without the floor: a padding that is not positive gives no fill
writeSplitTextNoFloor(vd, left, right, repeat, trim) ==
    left \o Repeat(repeat, vd.cols - (Len(left) + Len(right)) + trim) \o right \o <<"\n">>

writeSplitText(vd, left, right, repeat, trim) ==
    LET computed == vd.cols - (Len(left) + Len(right)) + trim
        padding == IF computed <= 0 THEN 1 ELSE computed
    IN  left \o Repeat(repeat, padding) \o right \o <<"\n">>

writeRule(vd, repeat) == Repeat(repeat, vd.cols) \o <<"\n">>

RECURSIVE writeTocFrom(_, _)
writeTocFrom(vd, i) ==
    IF i > Len(vd.headings) THEN <<>>
    ELSE LET h == vd.headings[i]
             title == Repeat(" ", (h.level - 1) * vd.tabs) \o buildChapters(vd, i)
                        \o <<" ">> \o h.text
             link == <<"|">> \o buildHelpTag(vd, h.text) \o <<"|">>
         IN  writeSplitText(vd, title, link, ".", 2) \o writeTocFrom(vd, i + 1)

\* writeToc with the loop stopping one heading early
writeTocShort(vd) ==
    writeTocFrom([vd EXCEPT !.headings = SubSeq(@, 1, Len(@) - 1)], 1)

writeToc(vd) == writeTocFrom(vd, 1)

\* writeIndent without the width >= trim test: the first line loses trim
\* columns even when the indent is narrower than that
RECURSIVE writeIndentUnguarded(_, _, _, _)
writeIndentUnguarded(vd, lines, index, trim) ==
    IF index > Len(lines) THEN <<>>
    ELSE LET line == lines[index]
             width == IF index = 1 THEN Max(vd.tabs - trim, 0) ELSE vd.tabs
         IN  (IF Len(line) > 0 THEN Repeat(" ", width) \o line \o <<"\n">> ELSE <<>>)
               \o writeIndentUnguarded(vd, lines, index + 1, trim)

RECURSIVE writeIndentFrom(_, _, _, _)
writeIndentFrom(vd, lines, index, trim) ==
    IF index > Len(lines) THEN <<>>
    ELSE LET line == lines[index]
             width == IF vd.tabs >= trim /\ index = 1 THEN vd.tabs - trim ELSE vd.tabs
         IN  (IF Len(line) > 0 THEN Repeat(" ", width) \o line \o <<"\n">> ELSE <<>>)
               \o writeIndentFrom(vd, lines, index + 1, trim)

writeIndent(vd, text, trim) == writeIndentFrom(vd, Split(text), 1, trim)

----------------------------------------------------------------------------
(* Finalization helpers *)

\* the bytes \s matches
Whitespace == {" ", "\n", "\t", "\r", "\f"}

\* the fence characters [<>]
Fences == {"<", ">"}

\* first position at or after p that holds no whitespace (Len(s) + 1 if none)
RECURSIVE skipSpace(_, _)
skipSpace(s, p) ==
    IF p > Len(s) \/ s[p] \notin Whitespace THEN p ELSE skipSpace(s, p + 1)

\* ^ under (?m): the start of the text or just after a newline
lineStart(s, p) == p = 1 \/ s[p - 1] = "\n"

\* $ under (?m) right after position q: the end of the text or just before a newline
lineEnd(s, q) == q = Len(s) \/ s[q + 1] = "\n"

\* position p is whitespace that a match of (?m)^\s*([<>])$ consumes: the
\* whitespace run holding p reaches back to a line start (\s also matches
\* newlines, so the run may span blank lines) and forward to a fence
\* character that ends its line.  The leftmost match takes the run from its
\* first line start on, so every such p is consumed.
consumed(s, p) ==
    /\ s[p] \in Whitespace
    /\ LET q == skipSpace(s, p)
       IN  q <= Len(s) /\ s[q] \in Fences /\ lineEnd(s, q)
    /\ \E p0 \in 1..p : lineStart(s, p0) /\ \A j \in p0..p : s[j] \in Whitespace

\* the cleanup with a pattern that knows the open fence only
fixupOpenOnly(input) ==
    Flat([p \in 1..Len(input) |->
            IF consumed(input, p) /\ input[skipSpace(input, p)] = ">"
            THEN <<>> ELSE <<input[p]>>],
         1, Len(input))

\* regexp.MustCompile("(?m)^\s*([<>])$").ReplaceAll(input, "$1"): every match
\* is replaced by its fence character, all other bytes stay
fixupCodeTags(input) ==
    Flat([p \in 1..Len(input) |-> IF consumed(input, p) THEN <<>> ELSE <<input[p]>>],
         1, Len(input))

Contents == <<"C", "o", "n", "t", "e", "n", "t", "s">>

----------------------------------------------------------------------------
(* Handlers, as functions of the session and the buffer.  Those that change *)
(* both give a record [v, out]; the others give the new buffer.             *)

\* BlockCode, BlockQuote and BlockHtml have the same body
fencedBlock(vd, o, text) ==
    o \o <<">", "\n">> \o writeIndent(vd, text, 0) \o <<"<", "\n", "\n">>

\* Header: text() appends content to the buffer and returns ok
HeaderResult(vd, o, level, ok, content) ==
    LET initPos == Len(o)
        ruled == IF ~HasFlag(vd.flags, flagNoRules)
                 THEN (IF level = 1 THEN o \o writeRule(vd, "=")
                       ELSE IF level = 2 THEN o \o writeRule(vd, "-")
                       ELSE o)
                 ELSE o
        headingPos == Len(ruled)
        after == ruled \o content
    IN  IF ~ok THEN [v |-> vd, out |-> SubSeq(after, 1, initPos)]
        ELSE LET temp == SubSeq(after, headingPos + 1, Len(after))
                 cut == SubSeq(after, 1, headingPos)
                 h == [text |-> temp, level |-> level]
                 vd2 == [vd EXCEPT !.headings = Append(@, h)]
                 tag == <<"*">> \o buildHelpTag(vd2, h.text) \o <<"*">>
             IN  [v |-> vd2,
                  out |-> cut \o writeSplitText(vd2, ToUpper(h.text), tag, " ", 2)
                              \o <<"\n">>]

\* List with a frame that goes on from the counter of the enclosing list
listPushContinue(lists) ==
    Append(lists, IF lists = <<>> THEN [index |-> 1] ELSE lists[Len(lists)])

\* List: the frame pushed before text() runs, and the pop after it
listPush(lists) == Append(lists, [index |-> 1])
listPop(lists) == SubSeq(lists, 1, Len(lists) - 1)

\* ListItem on a non-empty list stack
ListItemResult(vd, o, text, ordered, endOfList) ==
    LET marker == Len(o)
        top == Len(vd.lists)
        list == vd.lists[top]
        marked == IF ordered THEN o \o Itoa(list.index) \o <<".", " ">>
                  ELSE o \o <<"*", " ">>
        vd2 == IF ordered THEN [vd EXCEPT !.lists[top].index = @ + 1] ELSE vd
        indented == marked \o writeIndent(vd2, text, Len(marked) - marker)
    IN  [v |-> vd2,
         out |-> IF endOfList THEN indented \o <<"\n">> ELSE indented]

\* Paragraph: text() appends content and returns ok
ParagraphResult(o, ok, content) ==
    LET marker == Len(o)
        after == o \o content
    IN  IF ~ok THEN SubSeq(after, 1, marker) ELSE after \o <<"\n", "\n">>

\* Table, TableRow, TableHeaderCell, TableCell, Footnotes, FootnoteItem and
\* TitleBlock only log: the buffer stays as it is
unimplemented(o) == o

(* Span-level callbacks *)

AutoLinkResult(o, link) == o \o link

\* the byte 0x60, which a TLA+ string cannot hold
Backtick == "0x60"

CodeSpanResult(o, text) == o \o <<Backtick>> \o text \o <<Backtick>>

DoubleEmphasisResult(o, text) == o \o text

\* Emphasis that keeps the markup around the text
EmphasisMarked(o, text) == o \o <<"*">> \o text \o <<"*">>

EmphasisResult(o, text) == o \o text

ImageResult(o) == o

LineBreakResult(o) == o \o <<"\n">>

LinkResult(o, link, content) == o \o content \o <<" ", "(">> \o link \o <<")">>

RawHtmlTagResult(o, tag) == o

TripleEmphasisResult(o, text) == o \o text

StrikeThroughResult(o, text) == o

FootnoteRefResult(o, ref) == o

(* Low-level callbacks *)

EntityResult(o, entity) == o \o entity

NormalTextResult(o, text) == o \o text

(* Header and footer *)

DocumentHeaderResult(vd, o) ==
    LET first == IF Len(vd.desc) > 0
                 THEN o \o writeSplitText(vd, vd.filename, vd.desc, " ", 0)
                 ELSE o \o vd.filename \o <<"\n">>
        o2 == first \o <<"\n">>
    IN  [v |-> [vd EXCEPT !.tocPos = Len(o2)], out |-> o2]

\* the Contents block DocumentFooter builds between out[:tocPos] and out[tocPos:]
tocSection(vd) ==
    LET tag == <<"*">> \o buildHelpTag(vd, Contents) \o <<"*">>
    IN  writeRule(vd, "=") \o writeSplitText(vd, ToUpper(Contents), tag, " ", 2)
          \o <<"\n">> \o writeToc(vd) \o <<"\n">>

\* DocumentFooter that cleans the fences up only when it built a table of contents
DocumentFooterCleanupWithToc(vd, o) ==
    IF vd.tocPos > 0 /\ ~HasFlag(vd.flags, flagNoToc)
    THEN fixupCodeTags(SubSeq(o, 1, vd.tocPos) \o tocSection(vd)
                         \o SubSeq(o, vd.tocPos + 1, Len(o)))
    ELSE o

DocumentFooterResult(vd, o) ==
    LET temp == IF vd.tocPos > 0 /\ ~HasFlag(vd.flags, flagNoToc)
                THEN SubSeq(o, 1, vd.tocPos) \o tocSection(vd)
                       \o SubSeq(o, vd.tocPos + 1, Len(o))
                ELSE o
    IN  fixupCodeTags(temp)

----------------------------------------------------------------------------
(* Inputs *)

\* number of body handler calls per conversion, for each specification
MaxCalls == 2
MaxHeadings == 4
MaxListCalls == 5
MaxSpanCalls == 2
MaxTagCalls == 2

AllFlags == 0..(flagNoToc + flagNoRules + flagPascal)

\* heading levels the parser passes
Levels == {1, 2, 3}

\* what text() of a heading or paragraph can do: <<returned value, bytes appended>>
TextRuns == {<<TRUE, <<"a">>>>, <<TRUE, <<"B", " ", "c">>>>, <<TRUE, <<>>>>,
             <<FALSE, <<>>>>, <<FALSE, <<"a">>>>}

\* block contents: plain lines with a blank line between, and a rendered
\* fenced block nested in the content
BlockTexts == {<<"a", "\n", "\n", "b", "\n">>,
               <<">", "\n", " ", " ", "a", "\n", "<", "\n", "\n">>}

\* list item contents: two lines, and a line followed by a rendered fenced block
ItemTexts == {<<"a", "\n", "b", "\n">>,
              <<"a", "\n", ">", "\n", " ", "c", "\n", "<", "\n">>}

\* the file names and the heading of the documented example
Rigellians == <<"r", "i", "g", "e", "l", "l", "i", "a", "n", "s">>

RigelliansMd == Rigellians \o <<".", "m", "d">>

CapRigellians == <<"R">> \o Tail(Rigellians)

CapRigelliansMd == CapRigellians \o <<".", "m", "d">>

HowToCook == <<"H", "o", "w", " ", "T", "o", " ", "C", "o", "o", "k", " ", "F", "o", "r",
               " ", "F", "o", "r", "t", "y", " ", "H", "u", "m", "a", "n", "s">>

\* span contents
SpanTexts == {<<"a">>, <<"<", "b", ">">>, <<"&", ";">>}

----------------------------------------------------------------------------
(* The conversion *)

InitWith(filenames, descs, colsSet, tabsSet, flagSet) ==
    /\ \E filename \in filenames, desc \in descs, cols \in colsSet,
          tabs \in tabsSet, flags \in flagSet :
            v = VimDocRenderer(filename, desc, cols, tabs, flags)
    /\ out = <<>>
    /\ pc = "new"
    /\ calls = 0
    /\ last = [op |-> "VimDocRenderer", pre |-> <<>>, hs |-> <<>>, a |-> <<>>]
    /\ trav = <<>>
    /\ open = <<>>

\* one body handler call: the session and buffer it leaves
Handle(max, op, a, vd, o) ==
    /\ pc = "body"
    /\ calls < max
    /\ v' = vd
    /\ out' = o
    /\ calls' = calls + 1
    /\ last' = [op |-> op, pre |-> out, hs |-> v.headings, a |-> a]
    /\ UNCHANGED <<pc, trav>>

DocumentHeader ==
    /\ pc = "new"
    /\ LET r == DocumentHeaderResult(v, out) IN v' = r.v /\ out' = r.out
    /\ pc' = "body"
    /\ last' = [op |-> "DocumentHeader", pre |-> out, hs |-> v.headings, a |-> <<>>]
    /\ UNCHANGED <<calls, trav, open>>

DocumentFooter ==
    /\ pc = "body"
    /\ open = <<>>
    /\ out' = DocumentFooterResult(v, out)
    /\ trav' = out
    /\ pc' = "done"
    /\ last' = [op |-> "DocumentFooter", pre |-> out, hs |-> v.headings, a |-> <<>>]
    /\ UNCHANGED <<v, calls, open>>

(* Block-level callbacks *)

BlockCode(max) ==
    \E text \in BlockTexts :
        Handle(max, "BlockCode", [text |-> text], v, fencedBlock(v, out, text))
          /\ UNCHANGED open

BlockQuote(max) ==
    \E text \in BlockTexts :
        Handle(max, "BlockQuote", [text |-> text], v, fencedBlock(v, out, text))
          /\ UNCHANGED open

BlockHtml(max) ==
    \E text \in BlockTexts :
        Handle(max, "BlockHtml", [text |-> text], v, fencedBlock(v, out, text))
          /\ UNCHANGED open

Header(max, runs) ==
    \E level \in Levels, run \in runs :
        LET r == HeaderResult(v, out, level, run[1], run[2])
        IN  Handle(max, "Header", [level |-> level, ok |-> run[1], text |-> run[2]],
                   r.v, r.out)
              /\ UNCHANGED open

HRule(max) ==
    Handle(max, "HRule", <<>>, v, out \o writeRule(v, "-")) /\ UNCHANGED open

\* List up to the call of text(): the items and nested lists run inside it
ListEnter(max) ==
    \E ordered \in BOOLEAN :
        /\ Handle(max, "List", [ordered |-> ordered],
                  [v EXCEPT !.lists = listPush(@)], out)
        /\ open' = Append(open, [ordered |-> ordered, nums |-> <<>>])

\* List after text() returned
ListExit ==
    /\ pc = "body"
    /\ open # <<>>
    /\ v' = [v EXCEPT !.lists = listPop(@)]
    /\ open' = SubSeq(open, 1, Len(open) - 1)
    /\ last' = [op |-> "ListExit", pre |-> out, hs |-> v.headings, a |-> <<>>]
    /\ UNCHANGED <<out, pc, calls, trav>>

ListItem(max) ==
    \E text \in ItemTexts, endOfList \in BOOLEAN :
        /\ open # <<>>
        /\ LET ordered == open[Len(open)].ordered
               r == ListItemResult(v, out, text, ordered, endOfList)
           IN  /\ Handle(max, "ListItem",
                         [text |-> text, ordered |-> ordered, endOfList |-> endOfList],
                         r.v, r.out)
               /\ open' = IF ordered
                          THEN [open EXCEPT ![Len(open)].nums =
                                   Append(@, v.lists[Len(v.lists)].index)]
                          ELSE open

Paragraph(max, runs) ==
    \E run \in runs :
        Handle(max, "Paragraph", [ok |-> run[1], text |-> run[2]], v,
               ParagraphResult(out, run[1], run[2]))
          /\ UNCHANGED open

\* the block-level elements the renderer does not implement
UnimplementedBlocks == {"Table", "TableRow", "TableHeaderCell", "TableCell",
                        "Footnotes", "FootnoteItem", "TitleBlock"}

Unimplemented(max) ==
    \E op \in UnimplementedBlocks :
        Handle(max, op, <<>>, v, unimplemented(out)) /\ UNCHANGED open

(* Span-level callbacks *)

AutoLink(max) ==
    \E link \in SpanTexts :
        Handle(max, "AutoLink", [text |-> link], v, AutoLinkResult(out, link))
          /\ UNCHANGED open

CodeSpan(max) ==
    \E text \in SpanTexts :
        Handle(max, "CodeSpan", [text |-> text], v, CodeSpanResult(out, text))
          /\ UNCHANGED open

DoubleEmphasis(max) ==
    \E text \in SpanTexts :
        Handle(max, "DoubleEmphasis", [text |-> text], v, DoubleEmphasisResult(out, text))
          /\ UNCHANGED open

Emphasis(max) ==
    \E text \in SpanTexts :
        Handle(max, "Emphasis", [text |-> text], v, EmphasisResult(out, text))
          /\ UNCHANGED open

Image(max) ==
    Handle(max, "Image", <<>>, v, ImageResult(out)) /\ UNCHANGED open

LineBreak(max) ==
    Handle(max, "LineBreak", <<>>, v, LineBreakResult(out)) /\ UNCHANGED open

Link(max) ==
    \E link \in SpanTexts, content \in SpanTexts :
        Handle(max, "Link", [link |-> link, text |-> content], v,
               LinkResult(out, link, content))
          /\ UNCHANGED open

RawHtmlTag(max) ==
    \E tag \in SpanTexts :
        Handle(max, "RawHtmlTag", [text |-> tag], v, RawHtmlTagResult(out, tag))
          /\ UNCHANGED open

TripleEmphasis(max) ==
    \E text \in SpanTexts :
        Handle(max, "TripleEmphasis", [text |-> text], v, TripleEmphasisResult(out, text))
          /\ UNCHANGED open

StrikeThrough(max) ==
    \E text \in SpanTexts :
        Handle(max, "StrikeThrough", [text |-> text], v, StrikeThroughResult(out, text))
          /\ UNCHANGED open

FootnoteRef(max) ==
    \E ref \in SpanTexts :
        Handle(max, "FootnoteRef", [text |-> ref], v, FootnoteRefResult(out, ref))
          /\ UNCHANGED open

(* Low-level callbacks *)

Entity(max) ==
    \E entity \in SpanTexts :
        Handle(max, "Entity", [text |-> entity], v, EntityResult(out, entity))
          /\ UNCHANGED open

NormalText(max) ==
    \E text \in SpanTexts :
        Handle(max, "NormalText", [text |-> text], v, NormalTextResult(out, text))
          /\ UNCHANGED open

----------------------------------------------------------------------------
(* Specifications *)

\* a whole conversion over block-level elements
Init == InitWith({<<"d", "/", "T", ".", "x">>}, {<<"d">>}, {4, 6}, {2}, AllFlags)

Next ==
    \/ DocumentHeader
    \/ BlockCode(MaxCalls)
    \/ BlockQuote(MaxCalls)
    \/ BlockHtml(MaxCalls)
    \/ Header(MaxCalls, TextRuns)
    \/ HRule(MaxCalls)
    \/ Paragraph(MaxCalls, TextRuns)
    \/ DocumentFooter

Spec == Init /\ [][Next]_vars

\* conversions made of headings only, for the registry and chapter numbers
HeadingRuns == {<<TRUE, <<"a">>>>, <<TRUE, <<"B", " ", "c">>>>, <<FALSE, <<"a">>>>}

InitHeadings ==
    InitWith({<<"T", ".", "x">>}, {<<>>}, {6}, {2}, {0, flagNoToc, flagNoRules})

NextHeadings ==
    \/ DocumentHeader
    \/ Header(MaxHeadings, HeadingRuns)
    \/ DocumentFooter

SpecHeadings == InitHeadings /\ [][NextHeadings]_vars

\* conversions whose headings exercise the help tag: file names with and
\* without an extension and capitals, heading texts with capitals,
\* punctuation and several words
TagFilenames == {RigelliansMd,
                 CapRigelliansMd,
                 <<"R", "E", "A", "D", "M", "E">>,
                 <<"d", ".", "d", "/", "M", "y", ".", "v", ".", "t">>}

TagRuns == {<<TRUE, HowToCook>>, <<TRUE, <<"a", "-", "b", " ", "c", "D", "_", "e">>>>,
            <<TRUE, <<"x", "2", "y", " ", " ", "z">>>>}

InitTags == InitWith(TagFilenames, {<<>>}, {40}, {4}, AllFlags)

NextTags ==
    \/ DocumentHeader
    \/ Header(MaxTagCalls, TagRuns)
    \/ DocumentFooter

SpecTags == InitTags /\ [][NextTags]_vars

\* conversions made of lists
InitLists == InitWith({<<"T", ".", "x">>}, {<<>>}, {6}, {2, 3, 4}, {0})

NextLists ==
    \/ DocumentHeader
    \/ ListEnter(MaxListCalls)
    \/ ListItem(MaxListCalls)
    \/ ListExit
    \/ DocumentFooter

SpecLists == InitLists /\ [][NextLists]_vars

\* span-level and unimplemented elements
InitSpans == InitWith({<<"T", ".", "x">>}, {<<>>, <<"d">>}, {6}, {2}, {0})

NextSpans ==
    \/ DocumentHeader
    \/ Unimplemented(MaxSpanCalls)
    \/ AutoLink(MaxSpanCalls)
    \/ CodeSpan(MaxSpanCalls)
    \/ DoubleEmphasis(MaxSpanCalls)
    \/ Emphasis(MaxSpanCalls)
    \/ Image(MaxSpanCalls)
    \/ LineBreak(MaxSpanCalls)
    \/ Link(MaxSpanCalls)
    \/ RawHtmlTag(MaxSpanCalls)
    \/ TripleEmphasis(MaxSpanCalls)
    \/ StrikeThrough(MaxSpanCalls)
    \/ FootnoteRef(MaxSpanCalls)
    \/ Entity(MaxSpanCalls)
    \/ NormalText(MaxSpanCalls)
    \/ DocumentFooter

SpecSpans == InitSpans /\ [][NextSpans]_vars

----------------------------------------------------------------------------
(* Helpers of the properties *)

IsPrefix(p, s) == Len(p) <= Len(s) /\ SubSeq(s, 1, Len(p)) = p

EndsWith(s, suffix) ==
    Len(suffix) <= Len(s) /\ SubSeq(s, Len(s) - Len(suffix) + 1, Len(s)) = suffix

Contains(s, sub) ==
    \E k \in 0..(Len(s) - Len(sub)) : SubSeq(s, k + 1, k + Len(sub)) = sub

LevelsOf(hs) == [i \in 1..Len(hs) |-> hs[i].level]

----------------------------------------------------------------------------
(* C1: chapter numbers *)

\* the nearest earlier heading with a strictly smaller level, 0 if there is none
Parent(hs, i) ==
    LET above == {j \in 1..(i - 1) : hs[j].level < hs[i].level}
    IN  IF above = {} THEN 0 ELSE CHOOSE j \in above : \A k \in above : k <= j

\* the chapter number the claim gives heading i: the parent's number, then
\* 1 + the number of earlier headings of the same level after the parent
RECURSIVE ChapterNumber(_, _)
ChapterNumber(hs, i) ==
    LET p == Parent(hs, i)
        k == 1 + Cardinality({j \in (p + 1)..(i - 1) : hs[j].level = hs[i].level})
    IN  (IF p = 0 THEN <<>> ELSE ChapterNumber(hs, p)) \o Itoa(k) \o <<".">>

\* the start of the table-of-contents line of heading i, up to its first fill character
EntryStart(vd, i) ==
    <<"\n">> \o Repeat(" ", (vd.headings[i].level - 1) * vd.tabs)
      \o ChapterNumber(vd.headings, i) \o <<" ">> \o vd.headings[i].text \o <<".">>

\* C1: for every registry the program builds and every heading in it,
\* buildChapters gives the parent's chapter number followed by the heading's
\* position among its siblings and a '.'; headings of levels 1, 2, 2, 1 get
\* 1., 1.1., 1.2., 2.; and these are the numbers the table of contents shows.
ChapterNumbersFollowParents ==
    /\ \A i \in 1..Len(v.headings) :
          buildChapters(v, i) = ChapterNumber(v.headings, i)
    /\ LevelsOf(v.headings) = <<1, 2, 2, 1>> =>
          [i \in 1..4 |-> buildChapters(v, i)] =
              <<<<"1", ".">>, <<"1", ".", "1", ".">>, <<"1", ".", "2", ".">>, <<"2", ".">>>>
    /\ (pc = "done" /\ ~HasFlag(v.flags, flagNoToc)) =>
          \A i \in 1..Len(v.headings) : Contains(out, EntryStart(v, i))

\* a finished conversion with a table of contents over headings of levels 1, 2, 2, 1
ChaptersWitness ==
    pc = "done" /\ ~HasFlag(v.flags, flagNoToc) /\ LevelsOf(v.headings) = <<1, 2, 2, 1>>

----------------------------------------------------------------------------
(* C2: help tags *)

\* the tag the heading line just written carries
TagWritten(tag) == EndsWith(out, <<"*">> \o tag \o <<"*", "\n", "\n">>)

HeaderRegistered == last.op = "Header" /\ last.a.ok

SlugLower == <<"h", "o", "w", "_", "t", "o", "_", "c", "o", "o", "k", "_", "f", "o", "r",
               "_", "f", "o", "r", "t", "y", "_", "h", "u", "m", "a", "n", "s">>

SlugPascal == <<"H", "o", "w", "T", "o", "C", "o", "o", "k", "F", "o", "r", "F", "o", "r",
                "t", "y", "H", "u", "m", "a", "n", "s">>

\* a byte that can be part of a word: a letter, a digit or an underscore
WordByte(c) == Has(Lowers, c) \/ Has(Uppers, c) \/ Has(Digits, c) \/ c = "_"

\* the text with the first letter of every space-delimited word upper-cased
CapitalizedWords(text) ==
    [i \in 1..Len(text) |->
        IF i = 1 \/ text[i - 1] = " " THEN toUpper(text[i]) ELSE text[i]]

\* the text with the first letter of every word upper-cased, where a word
\* starts at the start of the text and after any byte that is not a word
\* byte: every space-delimited word is capitalized, and so is a word that
\* follows punctuation
CapitalizedAfterSeparators(text) ==
    [i \in 1..Len(text) |->
        IF i = 1 \/ ~WordByte(text[i - 1]) THEN toUpper(text[i]) ELSE text[i]]

WithoutSpaces(text) == SelectSeq(text, LAMBDA c : c # " ")

SpacesToUnderscores(text) == [i \in 1..Len(text) |-> IF text[i] = " " THEN "_" ELSE text[i]]

\* the file name up to its last '.', all of it when it has none
Stem(name) ==
    IF Has(name, ".") THEN SubSeq(name, 1, LastIndex(name, ".") - 1) ELSE name

----------------------------------------------------------------------------
(* C3: a heading without content *)

\* C3: a Header call whose children append nothing leaves the buffer as it
\* was and registers no heading, whatever the level and the rule flag.
EmptyHeaderLeavesNoTrace ==
    (last.op = "Header" /\ last.a.text = <<>>) =>
        out = last.pre /\ v.headings = last.hs

----------------------------------------------------------------------------
(* C4: the table-of-contents flag *)

\* the text without its blank lines
DropBlank(s) ==
    Flat([p \in 1..Len(s) |-> IF s[p] = "\n" /\ lineStart(s, p) THEN <<>> ELSE <<s[p]>>],
         1, Len(s))

\* the session with flagNoToc the other way round
ToggleToc(vd) ==
    [vd EXCEPT !.flags = IF HasFlag(@, flagNoToc) THEN @ - flagNoToc ELSE @ + flagNoToc]

\* C4: the conversion run with and without flagNoToc ends in outputs that
\* differ by one block of whole lines, the Contents section: the block holds
\* the rule, the heading line and the entries (and blank lines) and nothing
\* else, and the output with a table of contents without that block is, byte
\* for byte, the output without a table of contents, help tags included.
TocFlagChangesOnlyContents ==
    pc = "done" =>
        LET other == DocumentFooterResult(ToggleToc(v), trav)
            on == IF HasFlag(v.flags, flagNoToc) THEN other ELSE out
            off == IF HasFlag(v.flags, flagNoToc) THEN out ELSE other
            d == Len(on) - Len(off)
        IN  /\ d > 0
            /\ \E i \in 0..Len(off) :
                  /\ i = 0 \/ on[i] = "\n"
                  /\ on[i + d] = "\n"
                  /\ SubSeq(on, 1, i) \o SubSeq(on, i + d + 1, Len(on)) = off
                  /\ DropBlank(SubSeq(on, i + 1, i + d)) = DropBlank(tocSection(v))

\* a finished conversion with a heading whose body starts with a fence, where
\* the cleanup joins the fence to the text before it
TocFlagWitness ==
    /\ pc = "done"
    /\ Len(v.headings) > 0
    /\ Len(trav) > v.tocPos
    /\ trav[v.tocPos + 1] = ">"

----------------------------------------------------------------------------
(* C6: split lines *)

\* the line the claim describes
SplitLine(left, right, fill, trim) ==
    left \o Repeat(fill, Max(1, v.cols - (Len(left) + Len(right)) + trim)) \o right
      \o <<"\n">>

\* the two texts of the heading line of the heading just registered
HeadingLeft == ToUpper(last.a.text)

HeadingRight == <<"*">> \o buildHelpTag(v, last.a.text) \o <<"*">>

\* C6: a split line is the left text, max(1, cols - (len(left) + len(right)) +
\* trim) fill characters, the right text and a newline, so at least one fill
\* character separates the texts however long they are; checked on the first
\* line of the document (trim 0), on every heading line (trim 2) and on the
\* entries of the table of contents (trim 2, filled with '.').
SplitTextPadsAtLeastOne ==
    /\ last.op = "DocumentHeader" =>
          out = SplitLine(v.filename, v.desc, " ", 0) \o <<"\n">>
    /\ (last.op = "Header" /\ last.a.ok) =>
          EndsWith(out, SplitLine(HeadingLeft, HeadingRight, " ", 2) \o <<"\n">>)
    /\ (pc = "done" /\ ~HasFlag(v.flags, flagNoToc)) =>
          \A i \in 1..Len(v.headings) :
              LET h == v.headings[i]
                  title == Repeat(" ", (h.level - 1) * v.tabs) \o buildChapters(v, i)
                             \o <<" ">> \o h.text
                  link == <<"|">> \o buildHelpTag(v, h.text) \o <<"|">>
              IN  Contains(out, <<"\n">> \o SplitLine(title, link, ".", 2))

\* a heading line whose two texts together are longer than the column width
SplitTextWitness ==
    /\ last.op = "Header"
    /\ last.a.ok
    /\ Len(HeadingLeft) + Len(HeadingRight) > v.cols + 2

----------------------------------------------------------------------------
(* C7: fence lines *)

\* position q holds a fence character that is alone on its line but for
\* leading blanks
fenceLine(s, q) ==
    /\ s[q] \in Fences
    /\ lineEnd(s, q)
    /\ \E p0 \in 1..q :
          lineStart(s, p0) /\ \A j \in p0..(q - 1) : s[j] \in Whitespace \ {"\n"}

\* the fence characters of the fence lines, in order
FenceLines(s) ==
    Flat([q \in 1..Len(s) |-> IF fenceLine(s, q) THEN <<s[q]>> ELSE <<>>], 1, Len(s))

\* C7: after DocumentFooter every fence line of the traversal output, open or
\* close, is in the final output as the bare fence character: the final
\* output has the same fence lines in the same order and none of them has
\* leading whitespace.
FenceLinesLoseIndentation ==
    pc = "done" =>
        /\ FenceLines(out) = FenceLines(trav)
        /\ \A q \in 1..Len(out) : fenceLine(out, q) => lineStart(out, q)

\* a finished conversion whose traversal left an indented open fence and an
\* indented close fence
FenceLinesWitness ==
    /\ pc = "done"
    /\ \E q \in 1..Len(trav) : fenceLine(trav, q) /\ ~lineStart(trav, q) /\ trav[q] = ">"
    /\ \E q \in 1..Len(trav) : fenceLine(trav, q) /\ ~lineStart(trav, q) /\ trav[q] = "<"

----------------------------------------------------------------------------
(* C8: the Contents section *)

\* the table-of-contents line the claim gives heading i
Entry(vd, i) ==
    LET h == vd.headings[i]
    IN  writeSplitText(vd,
            Repeat(" ", (h.level - 1) * vd.tabs) \o ChapterNumber(vd.headings, i)
              \o <<" ">> \o h.text,
            <<"|">> \o buildHelpTag(vd, h.text) \o <<"|">>, ".", 2)

\* the number of lines of s that end in the byte c
LinesEndingIn(s, c) == Cardinality({q \in 1..Len(s) : s[q] = c /\ lineEnd(s, q)})

\* C8: with a table of contents the final output is the prologue, directly
\* followed by the Contents rule and heading line, then one entry line for
\* every registered heading in document order, then the body (blank lines
\* apart); the registry holds the headings of the traversal only, so Contents
\* is no entry: there are as many entry lines as heading lines in the body.
ContentsFollowsPrologue ==
    (pc = "done" /\ ~HasFlag(v.flags, flagNoToc) /\ v.tocPos > 0) =>
        LET prologue == SubSeq(trav, 1, v.tocPos)
            body == SubSeq(trav, v.tocPos + 1, Len(trav))
            n == Len(v.headings)
            tag == v.title \o <<"-">>
                     \o (IF HasFlag(v.flags, flagPascal) THEN Contents ELSE ToLower(Contents))
            front == prologue \o Repeat("=", v.cols) \o <<"\n">>
                       \o writeSplitText(v, ToUpper(Contents), <<"*">> \o tag \o <<"*">>, " ", 2)
        IN  /\ IsPrefix(front, out)
            /\ DropBlank(SubSeq(out, Len(front) + 1, Len(out)))
                  = Flat([i \in 1..n |-> Entry(v, i)], 1, n) \o DropBlank(fixupCodeTags(body))
            /\ LinesEndingIn(out, "|") = n
            /\ LinesEndingIn(body, "*") = n

\* a finished conversion with a table of contents of two entries
ContentsWitness ==
    pc = "done" /\ ~HasFlag(v.flags, flagNoToc) /\ v.tocPos > 0 /\ Len(v.headings) = 2

----------------------------------------------------------------------------
(* C9: span handlers *)

PassThrough == {"Emphasis", "DoubleEmphasis", "TripleEmphasis", "AutoLink", "Entity",
                "NormalText"}

\* C9 as stated: emphasis, strong, triple emphasis, raw inline, autolink,
\* entity and plain text append exactly their content, inline code its
\* content between two backticks.
SpansPassContentAsStated ==
    /\ last.op \in PassThrough \cup {"RawHtmlTag"} => out = last.pre \o last.a.text
    /\ last.op = "CodeSpan" => out = last.pre \o <<Backtick>> \o last.a.text \o <<Backtick>>

\* C9, amended: emphasis, strong, triple emphasis, autolink, entity and plain
\* text append exactly their content, inline code its content between two
\* backticks; raw inline is not implemented and appends nothing.
SpansPassContent ==
    /\ last.op \in PassThrough => out = last.pre \o last.a.text
    /\ last.op = "CodeSpan" => out = last.pre \o <<Backtick>> \o last.a.text \o <<Backtick>>
    /\ last.op = "RawHtmlTag" => out = last.pre

\* a raw inline tag with content, and the buffer as it was
SpansWitness ==
    last.op = "RawHtmlTag" /\ Len(last.a.text) > 0 /\ out = last.pre

----------------------------------------------------------------------------
(* C5: list counters *)

\* C5: every ordered list numbers its own items 1, 2, 3, ...: the numbers
\* written for the items of each open list are 1..k, each list frame holds the
\* number of its next item, and the item just rendered carries the number
\* after its predecessor in the same list, whatever lists were opened and
\* closed in between.
ListsNumberTheirOwnItems ==
    /\ Len(v.lists) = Len(open)
    /\ \A f \in 1..Len(open) :
          /\ \A k \in 1..Len(open[f].nums) : open[f].nums[k] = k
          /\ v.lists[f].index = Len(open[f].nums) + 1
    /\ (last.op = "ListItem" /\ last.a.ordered) =>
          IsPrefix(last.pre \o Itoa(Len(open[Len(open)].nums)) \o <<".", " ">>, out)

\* the second item of an ordered list, rendered after a nested unordered
\* list was rendered and closed behind its first item
ListsWitness ==
    /\ last.op = "ListItem"
    /\ Len(open) = 1
    /\ open[1].ordered
    /\ open[1].nums = <<1, 2>>
    /\ last.pre[v.tocPos + 1] = "1"
    /\ Contains(last.pre, <<"*", " ">>)

----------------------------------------------------------------------------
(* C10: the indent of a list item *)

\* the marker of the item just rendered
ItemMarker ==
    IF last.a.ordered THEN Itoa(Len(open[Len(open)].nums)) \o <<".", " ">> ELSE <<"*", " ">>

\* the number of blanks between the marker and the text of the first line
FirstIndent ==
    LET p == Len(last.pre) + Len(ItemMarker) + 1
    IN  skipSpace(out, p) - p

\* C10 as stated: the first line is indented by the indent width minus the
\* marker, so marker and indent together are as wide as the indent.
ItemTextAlignsAsStated ==
    last.op = "ListItem" => Len(ItemMarker) + FirstIndent = v.tabs

\* C10, amended: for an item whose text starts with a non-empty line, the
\* first line is indented by the indent width minus the marker when the indent
\* is at least as wide as the marker, and then its text starts in the column
\* of the continuation lines; when the indent is narrower than the marker the
\* first line is indented by the whole indent width after the marker.
\* Continuation lines are always indented by the indent width.
ItemTextAligns ==
    last.op = "ListItem" =>
        LET lines == Split(last.a.text)
            m == Len(ItemMarker)
            k == IF v.tabs >= m THEN v.tabs - m ELSE v.tabs
        IN  /\ Len(lines[1]) > 0 /\ Len(lines[2]) > 0
            /\ IsPrefix(last.pre \o ItemMarker \o Repeat(" ", k) \o lines[1] \o <<"\n">>
                          \o Repeat(" ", v.tabs) \o lines[2] \o <<"\n">>, out)
            /\ v.tabs >= m => m + FirstIndent = v.tabs
            /\ v.tabs < m => FirstIndent = v.tabs

\* an ordered item rendered with an indent narrower than its marker
ItemTextWitness ==
    last.op = "ListItem" /\ last.a.ordered /\ v.tabs < Len(ItemMarker)

====
